---- MODULE Spec2Model ----
(***************************************************************************)
(* Model of imaginefrank/scriptv0.1.                                       *)
(*                                                                         *)
(*  - the phase gate of the Script Ops UI (src/static/main.js 131-241):    *)
(*    state.phaseIndex, state.decisions and the "next" button;             *)
(*  - the beat polish workspace (src/public/main.js): workspaceState,      *)
(*    the rendered version cards and their click handlers, and the saves   *)
(*    it posts to the Express server (src/static/main.js 441-465);         *)
(*  - the task queue and the token estimator of the Script Ops UI          *)
(*    (src/static/main.js 301-403): state.queue, its timers and the        *)
(*    loading indicator; state.tokens and the totals shown.                *)
(***************************************************************************)
EXTENDS Integers, Sequences, FiniteSets, TLC

VARIABLES
    phaseIndex,     \* state.phaseIndex
    decisions,      \* state.decisions: filters, toolkit, variant, rollback
    nextDisabled,   \* el('next-phase').disabled
    lastCall        \* observation: the phase-gate handler that ran last

phaseVars == <<phaseIndex, decisions, nextDisabled, lastCall>>

VARIABLES
    workspaceState, \* per session: workspaceState
    activeBeatId,   \* per session: activeBeatId
    loading,        \* per session: loadState() has not got its response yet
    rendered,       \* per session: what beatDetailEl holds, with its handlers
    saves,          \* the POST /api/state requests not yet settled
    stored,         \* workspace_state.json
    nextUuid,       \* the number of ids crypto.randomUUID() has handed out
    now,            \* the last reading of the clock, by new Date()
    lastEvent       \* observation: the click handler that ran last

wsVars == <<workspaceState, activeBeatId, loading, rendered, saves, stored,
            nextUuid, now, lastEvent>>

VARIABLES
    queue,          \* state.queue
    timers,         \* the window's active timers, in the order they will run
    loadingActive,  \* el('global-loading') has the class 'active'
    queueUuids,     \* the number of ids crypto.randomUUID() has handed out
    tokens,         \* state.tokens
    tokenTotals,    \* what renderTokens last put into #token-totals
    conversation    \* state.conversation

opsVars == <<queue, timers, loadingActive, queueUuids, tokens, tokenTotals,
             conversation>>

----------------------------------------------------------------------------
(* Bounds of the model: the inputs the handlers are tried with.            *)

\* changePhase is tried with every delta in -MaxDelta..MaxDelta
MaxDelta == 5

Deltas == (0 - MaxDelta)..MaxDelta

\* values of the checkboxes under #filter-options
FilterValues == {"safety", "dedupe"}

\* values of the radios under #toolkit-options (a radio cannot be unchecked)
ToolkitValues == {"alpha", "beta"}

\* values of #variant-select; "" is its placeholder option
VariantValues == {"", "A", "B"}

----------------------------------------------------------------------------
(* Phase gate: src/static/main.js                                          *)

phases == <<
    [id |-> "filters",  label |-> "Filters"],
    [id |-> "toolkit",  label |-> "Toolkit"],
    [id |-> "variants", label |-> "Variant approval"],
    [id |-> "rollback", label |-> "Rollback"] >>

\* phases.length
NumPhases == Len(phases)

\* Boolean(s) of a string s
BooleanOfString(s) == s # ""

Min(a, b) == IF a <= b THEN a ELSE b

Max(a, b) == IF a >= b THEN a ELSE b

\* a mutant of Allowed: the 'variants' case is lost to the default
AllowedNoVariantCase(id, d) ==
    CASE id = "filters"  -> Cardinality(d.filters) > 0
      [] id = "toolkit"  -> BooleanOfString(d.toolkit)
      [] id = "rollback" -> d.rollback
      [] OTHER           -> TRUE

\* the switch of enforceDecision: the value of `allowed' for a phase id
Allowed(id, d) ==
    CASE id = "filters"  -> Cardinality(d.filters) > 0
      [] id = "toolkit"  -> BooleanOfString(d.toolkit)
      [] id = "variants" -> BooleanOfString(d.variant)
      [] id = "rollback" -> d.rollback
      [] OTHER           -> TRUE

\* phases[i] is an object (and not undefined)
InRange(i) == i \in 0..(NumPhases - 1)

\* enforceDecision(): nextBtn.disabled = !allowed, for index i and decisions
\* d. With phases[i] undefined, phases[i].id throws and the button keeps its
\* value cur.
EnforceDecision(i, d, cur) ==
    IF InRange(i) THEN ~Allowed(phases[i + 1].id, d) ELSE cur

\* a mutant of NextIndex: the clamp is lost
NextIndexUnclamped(i, delta) == i + delta

\* Math.min(phases.length - 1, Math.max(0, state.phaseIndex + delta))
NextIndex(i, delta) == Min(NumPhases - 1, Max(0, i + delta))

\* what lastCall records: the handler, its argument, and the index and the
\* value of the current phase's predicate when it was called
Called(op, delta) ==
    [op |-> op, delta |-> delta, from |-> phaseIndex,
     gate |-> InRange(phaseIndex)
              /\ Allowed(phases[phaseIndex + 1].id, decisions)]

\* a mutant of changePhase: updatePhaseInfo is not called
changePhaseNoUpdate(delta) ==
    /\ phaseIndex' = NextIndex(phaseIndex, delta)
    /\ decisions' = decisions
    /\ nextDisabled' = nextDisabled
    /\ lastCall' = Called("changePhase", delta)
    /\ UNCHANGED <<wsVars, opsVars>>

\* a mutant of changePhase: a forward move is refused while the current
\* phase's predicate is false
changePhaseGated(delta) ==
    /\ phaseIndex' = IF delta > 0 /\ nextDisabled
                     THEN phaseIndex
                     ELSE NextIndex(phaseIndex, delta)
    /\ decisions' = decisions
    /\ nextDisabled' = EnforceDecision(phaseIndex', decisions', nextDisabled)
    /\ lastCall' = Called("changePhase", delta)
    /\ UNCHANGED <<wsVars, opsVars>>

\* a mutant of changePhase: a backward move clears the decisions of the
\* phases it leaves behind
changePhaseResetting(delta) ==
    /\ phaseIndex' = NextIndex(phaseIndex, delta)
    /\ decisions' = IF delta < 0
                    THEN [decisions EXCEPT !.rollback = FALSE, !.variant = ""]
                    ELSE decisions
    /\ nextDisabled' = EnforceDecision(phaseIndex', decisions', nextDisabled)
    /\ lastCall' = Called("changePhase", delta)
    /\ UNCHANGED <<wsVars, opsVars>>

\* changePhase(delta): sets the index, then updatePhaseInfo -> enforceDecision
changePhase(delta) ==
    /\ phaseIndex' = NextIndex(phaseIndex, delta)
    /\ decisions' = decisions
    /\ nextDisabled' = EnforceDecision(phaseIndex', decisions', nextDisabled)
    /\ lastCall' = Called("changePhase", delta)
    /\ UNCHANGED <<wsVars, opsVars>>

\* a mutant of ClickNext: the button is never disabled
ClickNextUnguarded == changePhase(1)

\* click on #next-phase: a disabled button dispatches no click
ClickNext ==
    /\ ~nextDisabled
    /\ changePhase(1)

\* click on #prev-phase
ClickPrev == changePhase(-1)

\* changePhase called directly, with any delta
CallChangePhase == \E delta \in Deltas : changePhase(delta)

\* handleFilterChange(event), event.target = {value, checked}
handleFilterChange(value, checked) ==
    /\ decisions' = [decisions EXCEPT !.filters =
                        IF checked THEN @ \cup {value} ELSE @ \ {value}]
    /\ phaseIndex' = phaseIndex
    /\ nextDisabled' = EnforceDecision(phaseIndex', decisions', nextDisabled)
    /\ lastCall' = Called("handleFilterChange", 0)
    /\ UNCHANGED <<wsVars, opsVars>>

\* handleToolkitChange(event)
handleToolkitChange(value) ==
    /\ decisions' = [decisions EXCEPT !.toolkit = value]
    /\ phaseIndex' = phaseIndex
    /\ nextDisabled' = EnforceDecision(phaseIndex', decisions', nextDisabled)
    /\ lastCall' = Called("handleToolkitChange", 0)
    /\ UNCHANGED <<wsVars, opsVars>>

\* a mutant of approveVariant: the early return is lost
approveVariantUnchecked(selected) ==
    /\ decisions' = [decisions EXCEPT !.variant = selected]
    /\ nextDisabled' = EnforceDecision(phaseIndex, decisions', nextDisabled)
    /\ phaseIndex' = phaseIndex
    /\ lastCall' = Called("approveVariant", 0)
    /\ UNCHANGED <<wsVars, opsVars>>

\* approveVariant(): returns early, touching nothing, when nothing is selected
approveVariant(selected) ==
    /\ IF ~BooleanOfString(selected)
       THEN UNCHANGED <<decisions, nextDisabled>>
       ELSE /\ decisions' = [decisions EXCEPT !.variant = selected]
            /\ nextDisabled' = EnforceDecision(phaseIndex, decisions', nextDisabled)
    /\ phaseIndex' = phaseIndex
    /\ lastCall' = Called("approveVariant", 0)
    /\ UNCHANGED <<wsVars, opsVars>>

\* 'change' on #variant-select is bound to enforceDecision itself
VariantSelectChange ==
    /\ nextDisabled' = EnforceDecision(phaseIndex, decisions, nextDisabled)
    /\ UNCHANGED <<phaseIndex, decisions>>
    /\ lastCall' = Called("enforceDecision", 0)
    /\ UNCHANGED <<wsVars, opsVars>>

\* toggleRollback(event)
toggleRollback(checked) ==
    /\ decisions' = [decisions EXCEPT !.rollback = checked]
    /\ phaseIndex' = phaseIndex
    /\ nextDisabled' = EnforceDecision(phaseIndex', decisions', nextDisabled)
    /\ lastCall' = Called("toggleRollback", 0)
    /\ UNCHANGED <<wsVars, opsVars>>

FilterEvent == \E v \in FilterValues, c \in BOOLEAN : handleFilterChange(v, c)

ToolkitEvent == \E v \in ToolkitValues : handleToolkitChange(v)

ApproveEvent == \E v \in VariantValues : approveVariant(v)

RollbackEvent == \E c \in BOOLEAN : toggleRollback(c)

\* `state' as constructed, then init(): updatePhaseInfo -> enforceDecision
PhaseInit ==
    /\ phaseIndex = 0
    /\ decisions = [filters |-> {}, toolkit |-> "", variant |-> "",
                    rollback |-> FALSE]
    /\ nextDisabled = EnforceDecision(phaseIndex, decisions, FALSE)
    /\ lastCall = [op |-> "init", delta |-> 0, from |-> 0, gate |-> FALSE]

DecisionEvent ==
    \/ FilterEvent
    \/ ToolkitEvent
    \/ ApproveEvent
    \/ VariantSelectChange
    \/ RollbackEvent

PhaseNext ==
    \/ ClickNext
    \/ ClickPrev
    \/ CallChangePhase
    \/ DecisionEvent

\* the events of the page: changePhase runs from the two buttons only
GuardedNext ==
    \/ ClickNext
    \/ ClickPrev
    \/ DecisionEvent


----------------------------------------------------------------------------
(* Beat polish workspace: src/public/main.js, and the state routes of the  *)
(* server, src/static/main.js 441-465.                                     *)
(*                                                                         *)
(* A text is a sequence of string fragments, and a template literal or a   *)
(* join is the concatenation of its parts. An id is a string; a timestamp  *)
(* is the clock's reading (toISOString and new Date(...) are inverse to    *)
(* each other at the millisecond).                                         *)

\* versions created per run
MaxVersions == 1

\* POST requests in flight at a time
MaxInFlight == 1

Sessions == {"s1", "s2"}

\* null / undefined
Null == "null"

\* the operator's instruction as typed: fragments, " " for white space
InstructionInputs == { <<" ">>, <<" ", "tighten", " ">> }

RECURSIVE TrimStart(_)
TrimStart(t) ==
    IF t # <<>> /\ Head(t) = " " THEN TrimStart(Tail(t)) ELSE t

RECURSIVE TrimEnd(_)
TrimEnd(t) ==
    IF t # <<>> /\ t[Len(t)] = " " THEN TrimEnd(SubSeq(t, 1, Len(t) - 1)) ELSE t

\* String.prototype.trim
Trim(t) == TrimEnd(TrimStart(t))

\* a || b for strings: the empty string is falsy
OrElse(a, b) == IF a # <<>> THEN a ELSE b

\* donorOption === null
NoDonor == [id |-> Null, name |-> <<>>, text |-> <<>>]

\* Array.prototype.find, as an index: the least of the indices whose
\* element passes the test, 0 when there is none
FirstIndex(passing) ==
    IF passing = {} THEN 0
    ELSE CHOOSE i \in passing : \A j \in passing : i <= j

\* a mutant of SelectedIndex: the version created last counts as the selected
SelectedIndexLatest(beat) == Len(beat.versions)

\* beat.versions.find((v) => v.id === beat.selectedVersionId), as an index
SelectedIndex(beat) ==
    FirstIndex({k \in 1..Len(beat.versions) :
                    beat.versions[k].id = beat.selectedVersionId})

\* [...].join('\n')
RECURSIVE Join(_)
Join(lines) ==
    IF Len(lines) = 0 THEN <<>>
    ELSE IF Len(lines) = 1 THEN lines[1]
    ELSE lines[1] \o <<"\n">> \o Join(Tail(lines))

\* buildPrompt(beat, donorOption, instruction)
buildPrompt(beat, donorOption, instruction) ==
    LET donorText == IF donorOption # NoDonor
                     THEN donorOption.name \o <<": ">> \o donorOption.text
                     ELSE <<"Use baseline tone only.">>
        sel == SelectedIndex(beat)
    IN  Join(<<
          <<"You are polishing a beat while preserving meaning and structure.">>,
          <<"Current selected draft: ">>
              \o (IF sel # 0 THEN beat.versions[sel].text ELSE beat.baseline),
          <<"Baseline reference: ">> \o beat.baseline,
          <<"Style donor: ">> \o donorText,
          <<"Operator instruction: ">>
              \o OrElse(instruction, <<"None provided">>),
          <<"Return a polished draft that keeps the narrative order but adapts tone/style from the donor and instruction.">>
        >>)

\* a mutant of createPolishedDraft: the prompt is built once the draft is
\* pushed and selected
createPolishedDraftPromptAfter(beat, donorOption, instruction, uuid, time) ==
    LET donorLabel == IF donorOption # NoDonor
                      THEN donorOption.name ELSE <<"baseline">>
        draft == [id |-> uuid,
                  text |-> <<"Polished draft using ">> \o donorLabel,
                  sourceOption |-> donorLabel,
                  instruction |-> OrElse(instruction, <<"None provided">>),
                  timestamp |-> time,
                  prompt |-> <<>>]
        pushed == [beat EXCEPT !.versions = Append(@, draft),
                               !.selectedVersionId = uuid]
    IN  [draft EXCEPT !.prompt = buildPrompt(pushed, donorOption, instruction)]

\* createPolishedDraft(beat, donorOption, instruction), with the id that
\* crypto.randomUUID() and the time that new Date() return
createPolishedDraft(beat, donorOption, instruction, uuid, time) ==
    LET prompt == buildPrompt(beat, donorOption, instruction)
        donorLabel == IF donorOption # NoDonor
                      THEN donorOption.name ELSE <<"baseline">>
        text == <<"Polished draft using ">> \o donorLabel
                  \o <<" with instruction \"">> \o OrElse(instruction, <<"None">>)
                  \o <<"\".\n\n">> \o beat.baseline
                  \o <<"\n\nStyle cues: ">>
                  \o (IF donorOption # NoDonor
                      THEN donorOption.text ELSE <<"Baseline tone">>)
                  \o <<"\nInstruction applied: ">>
                  \o OrElse(instruction, <<"None provided">>)
    IN  [id |-> uuid,
         text |-> text,
         sourceOption |-> donorLabel,
         instruction |-> OrElse(instruction, <<"None provided">>),
         timestamp |-> time,
         prompt |-> prompt]

\* crypto.randomUUID(): the n-th id handed out; no two are equal
RandomUUID(n) == ToString(n)

\* workspaceState.beats.find((b) => b.id === id), as an index
BeatIndex(state, id) ==
    FirstIndex({i \in 1..Len(state.beats) : state.beats[i].id = id})

\* v put into a list sorted newest first, behind the versions that are not
\* older (Array.prototype.sort is stable)
RECURSIVE InsertByTime(_, _)
InsertByTime(v, sorted) ==
    IF sorted = <<>> THEN <<v>>
    ELSE IF Head(sorted).timestamp >= v.timestamp
         THEN <<Head(sorted)>> \o InsertByTime(v, Tail(sorted))
         ELSE <<v>> \o sorted

\* sort((a, b) => new Date(b.timestamp) - new Date(a.timestamp))
RECURSIVE SortNewestFirst(_)
SortNewestFirst(versions) ==
    IF versions = <<>> THEN <<>>
    ELSE InsertByTime(versions[Len(versions)],
                      SortNewestFirst(SubSeq(versions, 1, Len(versions) - 1)))

\* a mutant of VersionsAfterRender: sort() without slice() sorts the beat's
\* own array
VersionsAfterRenderNoSlice(versions) == SortNewestFirst(versions)

\* beat.versions after renderVersionList: sort() works on the copy that
\* slice() made
VersionsAfterRender(versions) == versions

\* renderVersionList(beat, container): one card per version, newest first;
\* a card holds the version its handlers close over and has a Select button
\* unless the version is the selected one; every card has "Rollback here"
renderVersionList(beat) ==
    LET shown == SortNewestFirst(beat.versions)
    IN  [k \in 1..Len(shown) |->
            [id |-> shown[k].id,
             selectBtn |-> beat.selectedVersionId # shown[k].id]]

\* renderActiveBeat(): what beatDetailEl holds afterwards. beat is the index
\* of the beat its handlers close over, 0 for "No beat selected."
renderActiveBeat(state, active) ==
    LET i == BeatIndex(state, active)
    IN  IF i = 0
        THEN [beat |-> 0, cards |-> <<>>]
        ELSE [beat |-> i, cards |-> renderVersionList(state.beats[i])]

\* workspaceState after renderActiveBeat()
StateAfterRender(state, active) ==
    LET i == BeatIndex(state, active)
    IN  IF i = 0
        THEN state
        ELSE [state EXCEPT !.beats[i].versions = VersionsAfterRender(@)]

\* getSelectedDonor(), value being the value of the checked radio
getSelectedDonor(beat, value) ==
    LET k == FirstIndex({j \in 1..Len(beat.rejectedOptions) :
                            beat.rejectedOptions[j].id = value})
    IN  IF value = "baseline" \/ k = 0 THEN NoDonor ELSE beat.rejectedOptions[k]

\* updatePromptPreview(): the text put into .prompt-preview, for the checked
\* radio and the instruction as typed
updatePromptPreview(beat, radio, typed) ==
    buildPrompt(beat, getSelectedDonor(beat, radio), Trim(typed))

\* the values of the radios renderActiveBeat puts under .rejected-options
DonorRadios(beat) ==
    {"baseline"} \cup {beat.rejectedOptions[k].id : k \in 1..Len(beat.rejectedOptions)}

\* a mutant of PolishBeat: the new version is selected but not pushed
PolishBeatNoPush(beat, version) ==
    [beat EXCEPT !.selectedVersionId = version.id]

\* a mutant of PolishBeat: the new version is pushed but not selected
PolishBeatNoSelect(beat, version) ==
    [beat EXCEPT !.versions = Append(@, version)]

\* a mutant of PolishBeat: the selection is assigned after the await, in
\* the part of the handler that runs when the save has returned
PolishBeatSelectLater(beat, version) ==
    [beat EXCEPT !.versions = @ \o <<version>>]

\* the polish handler's two assignments: push, then select
PolishBeat(beat, version) ==
    [beat EXCEPT !.versions = Append(@, version),
                 !.selectedVersionId = version.id]

\* the Select handler's assignment
SelectBeat(beat, versionId) ==
    [beat EXCEPT !.selectedVersionId = versionId]

\* a mutant of RollbackBeat: "rollback" undoes the version instead, selecting
\* the one created before it
RollbackBeatToPrevious(beat, versionId) ==
    LET k == FirstIndex({j \in 1..Len(beat.versions) :
                            beat.versions[j].id = versionId})
    IN  [beat EXCEPT !.selectedVersionId =
            IF k > 1 THEN beat.versions[k - 1].id ELSE Null]

\* the "Rollback here" handler's assignment
RollbackBeat(beat, versionId) ==
    [beat EXCEPT !.selectedVersionId = versionId]

\* saveState(): the request fetch() sends; JSON.stringify runs in the call
SaveRequest(s, state) ==
    [from |-> s, status |-> "sent",
     body |-> [kind |-> "array", beats |-> state.beats]]

\* seq without its k-th element
RemoveAt(seq, k) == SubSeq(seq, 1, k - 1) \o SubSeq(seq, k + 1, Len(seq))

\* what lastEvent records: the handler, its session, the index of the beat
\* and the id of the version it was about
Event(op, s, beat, version) ==
    [op |-> op, session |-> s, beat |-> beat, version |-> version]

\* lastEvent when the last step was no click (a response, the server, time)
NoEvent == Event("none", Null, 0, Null)

\* loadState(): the response of GET /api/state arrives (readState ran in
\* the same step: the session has no handlers before this)
loadState(s) ==
    /\ loading[s]
    /\ LET state == stored
           active == IF Len(state.beats) > 0 THEN state.beats[1].id ELSE Null
       IN  /\ workspaceState' =
                [workspaceState EXCEPT ![s] = StateAfterRender(state, active)]
           /\ activeBeatId' = [activeBeatId EXCEPT ![s] = active]
           /\ rendered' = [rendered EXCEPT ![s] = renderActiveBeat(state, active)]
    /\ loading' = [loading EXCEPT ![s] = FALSE]
    /\ lastEvent' = Event("loadState", s, 0, Null)
    /\ UNCHANGED <<saves, stored, nextUuid, now, phaseVars, opsVars>>

\* click on the j-th link of the beat list
ClickBeat(s, j) ==
    /\ ~loading[s]
    /\ j \in 1..Len(workspaceState[s].beats)
    /\ LET active == workspaceState[s].beats[j].id
       IN  /\ activeBeatId' = [activeBeatId EXCEPT ![s] = active]
           /\ workspaceState' = [workspaceState EXCEPT ![s] =
                                    StateAfterRender(@, active)]
           /\ rendered' = [rendered EXCEPT ![s] =
                                    renderActiveBeat(workspaceState[s], active)]
    /\ lastEvent' = Event("clickBeat", s, j, Null)
    /\ UNCHANGED <<loading, saves, stored, nextUuid, now, phaseVars, opsVars>>

\* click on .polish-btn, with the checked radio, the typed instruction and
\* the time new Date() reads: later than its last reading (two clicks are
\* more than a millisecond apart); in a run that creates at most maxIds
\* versions and has at most maxSaves requests in flight
PolishWithin(maxIds, maxSaves, s, radio, typed, time) ==
    /\ rendered[s].beat # 0
    /\ nextUuid < maxIds
    /\ Len(saves) < maxSaves
    /\ LET i == rendered[s].beat
           beat == workspaceState[s].beats[i]
           donorOption == getSelectedDonor(beat, radio)
           instruction == Trim(typed)
           version == createPolishedDraft(beat, donorOption, instruction,
                                          RandomUUID(nextUuid + 1), time)
       IN  /\ radio \in DonorRadios(beat)
           /\ workspaceState' = [workspaceState EXCEPT ![s].beats[i] =
                                    PolishBeat(beat, version)]
           /\ lastEvent' = Event("polish", s, i, version.id)
    /\ time = now + 1
    /\ now' = time
    /\ nextUuid' = nextUuid + 1
    /\ saves' = Append(saves, SaveRequest(s, workspaceState'[s]))
    /\ UNCHANGED <<activeBeatId, loading, rendered, stored, phaseVars, opsVars>>

\* click on .polish-btn, within the bounds of the run
Polish(s, radio, typed, time) ==
    PolishWithin(MaxVersions, MaxInFlight, s, radio, typed, time)

\* click on the Select button of the k-th card
Select(s, k) ==
    /\ k \in 1..Len(rendered[s].cards)
    /\ rendered[s].cards[k].selectBtn
    /\ Len(saves) < MaxInFlight
    /\ LET i == rendered[s].beat
           id == rendered[s].cards[k].id
       IN  /\ workspaceState' = [workspaceState EXCEPT ![s].beats[i] =
                                    SelectBeat(@, id)]
           /\ lastEvent' = Event("select", s, i, id)
    /\ saves' = Append(saves, SaveRequest(s, workspaceState'[s]))
    /\ UNCHANGED <<activeBeatId, loading, rendered, stored, nextUuid, now, phaseVars, opsVars>>

\* click on "Rollback here" of the k-th card, in a run that has at most
\* maxSaves requests in flight
RollbackWithin(maxSaves, s, k) ==
    /\ k \in 1..Len(rendered[s].cards)
    /\ Len(saves) < maxSaves
    /\ LET i == rendered[s].beat
           id == rendered[s].cards[k].id
       IN  /\ workspaceState' = [workspaceState EXCEPT ![s].beats[i] =
                                    RollbackBeat(@, id)]
           /\ lastEvent' = Event("rollback", s, i, id)
    /\ saves' = Append(saves, SaveRequest(s, workspaceState'[s]))
    /\ UNCHANGED <<activeBeatId, loading, rendered, stored, nextUuid, now, phaseVars, opsVars>>

\* click on "Rollback here" of the k-th card, within the bounds of the run
Rollback(s, k) == RollbackWithin(MaxInFlight, s, k)

\* the body of the Select and "Rollback here" handlers run for the i-th beat
\* with a version id that need not be one of a rendered card
selectVersion(s, i, id) ==
    /\ ~loading[s]
    /\ i \in 1..Len(workspaceState[s].beats)
    /\ Len(saves) < MaxInFlight
    /\ workspaceState' = [workspaceState EXCEPT ![s].beats[i] = SelectBeat(@, id)]
    /\ lastEvent' = Event("selectVersion", s, i, id)
    /\ saves' = Append(saves, SaveRequest(s, workspaceState'[s]))
    /\ UNCHANGED <<activeBeatId, loading, rendered, stored, nextUuid, now, phaseVars, opsVars>>

\* a mutant of PostState: the body is written without the check
PostStateUnvalidated(k) ==
    /\ k \in 1..Len(saves)
    /\ saves[k].status = "sent"
    /\ saves' = [saves EXCEPT ![k].status = "200"]
    /\ stored' = [beats |-> saves[k].body.beats]
    /\ lastEvent' = NoEvent
    /\ UNCHANGED <<workspaceState, activeBeatId, loading, rendered, nextUuid,
                   now, phaseVars, opsVars>>

\* a mutant of PostState: a body that lacks a version the file holds is
\* refused as out of date
PostStateRefusingStale(k) ==
    /\ k \in 1..Len(saves)
    /\ saves[k].status = "sent"
    /\ LET body == saves[k].body
           Has(beats, id) == \E i \in 1..Len(beats) :
                                \E j \in 1..Len(beats[i].versions) :
                                    beats[i].versions[j].id = id
           stale == \E i \in 1..Len(stored.beats) :
                        \E j \in 1..Len(stored.beats[i].versions) :
                            ~Has(body.beats, stored.beats[i].versions[j].id)
       IN  IF body.kind # "array" \/ stale
           THEN /\ saves' = [saves EXCEPT ![k].status = "400"]
                /\ stored' = stored
           ELSE /\ saves' = [saves EXCEPT ![k].status = "200"]
                /\ stored' = [beats |-> body.beats]
    /\ lastEvent' = NoEvent
    /\ UNCHANGED <<workspaceState, activeBeatId, loading, rendered, nextUuid,
                   now, phaseVars, opsVars>>

\* app.post('/api/state'): the server handles the k-th request
PostState(k) ==
    /\ k \in 1..Len(saves)
    /\ saves[k].status = "sent"
    /\ IF saves[k].body.kind # "array"
       THEN /\ saves' = [saves EXCEPT ![k].status = "400"]
            /\ stored' = stored
       ELSE /\ saves' = [saves EXCEPT ![k].status = "200"]
            /\ stored' = [beats |-> saves[k].body.beats]
    /\ lastEvent' = NoEvent
    /\ UNCHANGED <<workspaceState, activeBeatId, loading, rendered, nextUuid,
                   now, phaseVars, opsVars>>

\* the response of the k-th request arrives: await saveState() returns and
\* the handler goes on to renderActiveBeat()
SaveReturns(k) ==
    /\ k \in 1..Len(saves)
    /\ saves[k].status \in {"200", "400"}
    /\ LET s == saves[k].from
       IN  /\ workspaceState' = [workspaceState EXCEPT ![s] =
                                    StateAfterRender(@, activeBeatId[s])]
           /\ rendered' = [rendered EXCEPT ![s] =
                              renderActiveBeat(workspaceState[s], activeBeatId[s])]
    /\ saves' = RemoveAt(saves, k)
    /\ lastEvent' = NoEvent
    /\ UNCHANGED <<activeBeatId, loading, stored, nextUuid, now, phaseVars, opsVars>>

\* fetch() rejects (the request or its response is lost): await throws and
\* the rest of the handler does not run
SaveFails(k) ==
    /\ k \in 1..Len(saves)
    /\ saves' = RemoveAt(saves, k)
    /\ lastEvent' = NoEvent
    /\ UNCHANGED <<workspaceState, activeBeatId, loading, rendered, stored,
                   nextUuid, now, phaseVars, opsVars>>

\* a beat as a job submission creates it
NewBeat(id, title, baseline, options) ==
    [id |-> id, title |-> title, baseline |-> baseline,
     rejectedOptions |-> options, versions |-> <<>>, selectedVersionId |-> Null]

BeatOne == NewBeat("b1", <<"Opening">>, <<"Intro text">>, <<>>)

BeatTwo == NewBeat("b2", <<"Conflict">>, <<"Chase scene">>,
                   << [id |-> "o1", name |-> <<"Noir">>,
                       text |-> <<"Rain on neon">>] >>)

\* the documents workspace_state.json may hold at start: none yet
\* (readState's default), and two beats, one fresh and one that an earlier
\* session polished
InitialDocuments ==
    { [beats |-> <<>>],
      [beats |-> <<BeatOne,
                   [BeatTwo EXCEPT !.versions =
                       << createPolishedDraft(BeatTwo, NoDonor, <<>>, "v0", 0) >>]
                 >>] }

\* the module as loaded: workspaceState = { beats: [] }, activeBeatId = null,
\* loadState() called and waiting for its response
WsInit ==
    /\ workspaceState = [s \in Sessions |-> [beats |-> <<>>]]
    /\ activeBeatId = [s \in Sessions |-> Null]
    /\ loading = [s \in Sessions |-> TRUE]
    /\ rendered = [s \in Sessions |-> [beat |-> 0, cards |-> <<>>]]
    /\ saves = <<>>
    /\ stored \in InitialDocuments
    /\ nextUuid = 0
    /\ now = 0
    /\ lastEvent = NoEvent

\* the events of one session
SessionNext(s) ==
    \/ loadState(s)
    \/ \E j \in 1..Len(workspaceState[s].beats) : ClickBeat(s, j)
    \/ \E typed \in InstructionInputs,
          radio \in DonorRadios(BeatOne) \cup DonorRadios(BeatTwo),
          time \in 1..MaxVersions :
          Polish(s, radio, typed, time)
    \/ \E k \in 1..Len(rendered[s].cards) : Select(s, k)
    \/ \E k \in 1..Len(rendered[s].cards) : Rollback(s, k)

NetworkNext ==
    \/ \E k \in 1..Len(saves) : PostState(k)
    \/ \E k \in 1..Len(saves) : SaveReturns(k)
    \/ \E k \in 1..Len(saves) : SaveFails(k)

\* one browser session against the server
WsNext ==
    \/ SessionNext("s1")
    \/ NetworkNext

\* what req.body.beats is, in the requests another client posts: undefined
\* (no such field), null, a string, an object, and arrays. The field beats
\* holds the elements of an array, and nothing for a value of another kind
RawBodies ==
    { [kind |-> "undefined", beats |-> <<>>],
      [kind |-> "null", beats |-> <<>>],
      [kind |-> "string", beats |-> <<>>],
      [kind |-> "object", beats |-> <<>>],
      [kind |-> "array", beats |-> <<>>],
      [kind |-> "array", beats |-> <<BeatOne>>] }

\* a client other than the page posts to /api/state
SendRaw(body) ==
    /\ Len(saves) < MaxInFlight
    /\ saves' = Append(saves, [from |-> "client", status |-> "sent",
                               body |-> body])
    /\ lastEvent' = NoEvent
    /\ UNCHANGED <<workspaceState, activeBeatId, loading, rendered, stored,
                   nextUuid, now, phaseVars, opsVars>>

\* that client gets its response
RawReturns(k) ==
    /\ k \in 1..Len(saves)
    /\ saves[k].from = "client"
    /\ saves[k].status \in {"200", "400"}
    /\ saves' = RemoveAt(saves, k)
    /\ lastEvent' = NoEvent
    /\ UNCHANGED <<workspaceState, activeBeatId, loading, rendered, stored,
                   nextUuid, now, phaseVars, opsVars>>

\* the page's response arrives
PageReturns(k) ==
    /\ k \in 1..Len(saves)
    /\ saves[k].from \in Sessions
    /\ SaveReturns(k)

\* one session of the page and another client, both posting to the server
SaveNext ==
    \/ loadState("s1")
    \/ \E j \in 1..Len(workspaceState["s1"].beats) : ClickBeat("s1", j)
    \/ \E typed \in InstructionInputs,
          radio \in DonorRadios(BeatOne) \cup DonorRadios(BeatTwo),
          time \in 1..MaxVersions :
          Polish("s1", radio, typed, time)
    \/ \E body \in RawBodies : SendRaw(body)
    \/ \E k \in 1..Len(saves) : PostState(k)
    \/ \E k \in 1..Len(saves) : PageReturns(k)
    \/ \E k \in 1..Len(saves) : RawReturns(k)

\* versions created, and requests in flight, in a run of two sessions
MaxRace == 2

\* two sessions of the page, each polishing with the baseline as donor and
\* no instruction, and the server
RaceNext ==
    \/ \E s \in Sessions : loadState(s)
    \/ \E s \in Sessions : \E j \in 1..Len(workspaceState[s].beats) :
          ClickBeat(s, j)
    \/ \E s \in Sessions :
          PolishWithin(MaxRace, MaxRace, s, "baseline", <<" ">>, now + 1)
    \/ \E k \in 1..Len(saves) : PostState(k)
    \/ \E k \in 1..Len(saves) : PageReturns(k)

\* versions created, and requests in flight, in a run of one session that
\* does not wait for its saves
MaxPipelined == 2

\* one session of the page, clicking on while its saves are in flight, and
\* the server, which handles the requests in the order they reach it
PipelinedNext ==
    \/ loadState("s1")
    \/ \E j \in 1..Len(workspaceState["s1"].beats) : ClickBeat("s1", j)
    \/ PolishWithin(MaxPipelined, MaxPipelined, "s1", "baseline", <<" ">>,
                    now + 1)
    \/ \E k \in 1..Len(rendered["s1"].cards) :
          RollbackWithin(MaxPipelined, "s1", k)
    \/ \E k \in 1..Len(saves) : PostState(k)
    \/ \E k \in 1..Len(saves) : PageReturns(k)

\* the version ids a direct call is tried with: "v9" is no version's id
CallIds == {"v0", "v9"}

\* the handlers' body called directly, and what follows from it
ApiNext ==
    \/ loadState("s1")
    \/ \E j \in 1..Len(workspaceState["s1"].beats) : ClickBeat("s1", j)
    \/ \E i \in 1..Len(workspaceState["s1"].beats), id \in CallIds :
          selectVersion("s1", i, id)
    \/ NetworkNext

----------------------------------------------------------------------------
(* Task queue and token estimator of the Script Ops UI:                    *)
(* src/static/main.js 301-403.                                             *)
(*                                                                         *)
(* Time is in milliseconds. A timer is held with the time left until it is *)
(* due; the window runs its timers in the order of their due times, and    *)
(* timers due together in the order they were set. A cost is in units of   *)
(* 10^-9 dollar, in which both prices are whole numbers.                   *)

\* tasks started per run
MaxTasks == 3

\* calls recorded per run
MaxCalls == 3

\* setTimeout(() => updateQueueStatus(task.id, 'running'), 300)
RunDelay == 300

\* setTimeout(() => updateQueueStatus(task.id, 'done'), 2600)
DoneDelay == 2600

\* tokenPricing.input: 0.0015 / 1000 dollar
InputPrice == 1500

\* tokenPricing.output: 0.002 / 1000 dollar
OutputPrice == 2000

\* Math.floor(Math.random() * 120): 0 .. 119
RandomSpan == 120

\* ... + 20, for the input tokens
InputFloor == 20

\* ... + 30, for the output tokens
OutputFloor == 30

\* the unit of toFixed(4): 10^-4 dollar
DisplayUnit == 100000

\* what Math.floor(Math.random() * 120) is tried with: its least and greatest
RandomDraws == {0, RandomSpan - 1}

\* #prompt-input as typed, character by character
PromptInputs == { <<" ">>, <<"h", "i", " ">> }

\* a mutant of NewTask: every task gets the same id
NewTaskSameId(id, label) ==
    [id |-> "1", label |-> label, status |-> "waiting"]

\* const task = { id: crypto.randomUUID(), label, status: 'waiting' }
NewTask(id, label) ==
    [id |-> id, label |-> label, status |-> "waiting"]

\* a mutant of InsertTimer: the timer set last runs first
InsertTimerFirst(t, list) == <<t>> \o list

\* a mutant of InsertTimer: of timers due together, the one set last runs
\* first
RECURSIVE InsertTimerTiesFirst(_, _)
InsertTimerTiesFirst(t, list) ==
    IF list = <<>> THEN <<t>>
    ELSE IF Head(list).wait < t.wait
         THEN <<Head(list)>> \o InsertTimerTiesFirst(t, Tail(list))
         ELSE <<t>> \o list

\* the list of active timers with t added: behind the timers due no later
RECURSIVE InsertTimer(_, _)
InsertTimer(t, list) ==
    IF list = <<>> THEN <<t>>
    ELSE IF Head(list).wait <= t.wait
         THEN <<Head(list)>> \o InsertTimer(t, Tail(list))
         ELSE <<t>> \o list

\* setTimeout(() => updateQueueStatus(id, status), delay)
SetTimeout(list, id, status, delay) ==
    InsertTimer([id |-> id, status |-> status, wait |-> delay], list)

\* renderQueue(): whether #global-loading gets the class 'active'
renderQueue(q) ==
    \E i \in 1..Len(q) : q[i].status = "running" \/ q[i].status = "waiting"

\* a mutant of addQueueItem: the second timer is not set
addQueueItemNoDoneTimer(label) ==
    /\ Len(queue) < MaxTasks
    /\ LET task == NewTask(RandomUUID(queueUuids + 1), label)
       IN  /\ queue' = Append(queue, task)
           /\ loadingActive' = renderQueue(queue')
           /\ timers' = SetTimeout(timers, task.id, "running", RunDelay)
    /\ queueUuids' = queueUuids + 1
    /\ UNCHANGED <<tokens, tokenTotals, conversation, phaseVars, wsVars>>

\* addQueueItem(label)
addQueueItem(label) ==
    /\ Len(queue) < MaxTasks
    /\ LET task == NewTask(RandomUUID(queueUuids + 1), label)
       IN  /\ queue' = Append(queue, task)
           /\ loadingActive' = renderQueue(queue')
           /\ timers' = SetTimeout(
                            SetTimeout(timers, task.id, "running", RunDelay),
                            task.id, "done", DoneDelay)
    /\ queueUuids' = queueUuids + 1
    /\ UNCHANGED <<tokens, tokenTotals, conversation, phaseVars, wsVars>>

\* click on #start-task
StartTask == addQueueItem(<<"Queued run ", ToString(Len(queue) + 1)>>)

\* a mutant of updateQueueStatus: the status is given to every task up to
\* and including the one found
updateQueueStatusUpTo(id, status) ==
    LET i == FirstIndex({k \in 1..Len(queue) : queue[k].id = id})
    IN  /\ queue' = [k \in 1..Len(queue) |->
                        IF k <= i THEN [queue[k] EXCEPT !.status = status]
                        ELSE queue[k]]
        /\ loadingActive' = renderQueue(queue')

\* a mutant of updateQueueStatus: renderQueue is not called
updateQueueStatusNoRender(id, status) ==
    LET i == FirstIndex({k \in 1..Len(queue) : queue[k].id = id})
    IN  /\ queue' = IF i = 0 THEN queue
                    ELSE [queue EXCEPT ![i].status = status]
        /\ loadingActive' = loadingActive

\* updateQueueStatus(id, status): returns early when no task has the id
updateQueueStatus(id, status) ==
    LET i == FirstIndex({k \in 1..Len(queue) : queue[k].id = id})
    IN  IF i = 0
        THEN UNCHANGED <<queue, loadingActive>>
        ELSE /\ queue' = [queue EXCEPT ![i].status = status]
             /\ loadingActive' = renderQueue(queue')

\* the first of the active timers is due and its callback runs
TimerFires ==
    /\ timers # <<>>
    /\ Head(timers).wait = 0
    /\ updateQueueStatus(Head(timers).id, Head(timers).status)
    /\ timers' = Tail(timers)
    /\ UNCHANGED <<queueUuids, tokens, tokenTotals, conversation, phaseVars,
                   wsVars>>

\* d milliseconds pass while a timer is waiting
Elapse(d) ==
    /\ \E k \in 1..Len(timers) : timers[k].wait > 0
    /\ timers' = [k \in 1..Len(timers) |->
                    [timers[k] EXCEPT !.wait = Max(0, @ - d)]]
    /\ UNCHANGED <<queue, loadingActive, queueUuids, tokens, tokenTotals,
                   conversation, phaseVars, wsVars>>

\* the times that pass in one step: up to the moment a timer is due, or as
\* long as the shorter delay
TimeSteps ==
    {RunDelay} \cup ({timers[k].wait : k \in 1..Len(timers)} \ {0})

TimePasses == \E d \in TimeSteps : Elapse(d)

QueueNext ==
    \/ StartTask
    \/ TimerFires
    \/ TimePasses

\* an id no task has
UnknownTaskId == "none"

\* updateQueueStatus called directly, with an id that is not in the queue
CallUpdateQueueStatus(status) ==
    /\ updateQueueStatus(UnknownTaskId, status)
    /\ lastCall' = Called("updateQueueStatus", 0)
    /\ UNCHANGED <<phaseIndex, decisions, nextDisabled, timers, queueUuids,
                   tokens, tokenTotals, conversation, wsVars>>

\* the queue's events, and such calls
QueueApiNext ==
    \/ QueueNext
    \/ \E status \in {"waiting", "running", "done"} :
          CallUpdateQueueStatus(status)

\* a mutant of calculateCost: the total leaves the output cost out
calculateCostInputOnly(inputTokens, outputTokens) ==
    [inputCost |-> inputTokens * InputPrice,
     outputCost |-> outputTokens * OutputPrice,
     total |-> inputTokens * InputPrice]

\* calculateCost(inputTokens, outputTokens)
calculateCost(inputTokens, outputTokens) ==
    LET inputCost == inputTokens * InputPrice
        outputCost == outputTokens * OutputPrice
    IN  [inputCost |-> inputCost,
         outputCost |-> outputCost,
         total |-> inputCost + outputCost]

\* Number.prototype.toFixed(4), in units of 10^-4 dollar: the nearest, the
\* larger of two equally near
ToFixed4(cost) == (2 * cost + DisplayUnit) \div (2 * DisplayUnit)

\* the forEach of renderTokens over entries[from..], starting from acc
RECURSIVE AddEntries(_, _, _)
AddEntries(entries, from, acc) ==
    IF from > Len(entries) THEN acc
    ELSE AddEntries(entries, from + 1,
            [totalInput |-> acc.totalInput + entries[from].inputTokens,
             totalOutput |-> acc.totalOutput + entries[from].outputTokens,
             totalCost |-> acc.totalCost + entries[from].cost.total])

\* renderTokens(): the three totals, and the cost as #token-totals shows it
renderTokens(entries) ==
    LET sums == AddEntries(entries, 1,
                    [totalInput |-> 0, totalOutput |-> 0, totalCost |-> 0])
    IN  [totalInput |-> sums.totalInput,
         totalOutput |-> sums.totalOutput,
         totalCost |-> sums.totalCost,
         shownCost |-> ToFixed4(sums.totalCost)]

\* addConversationLine(speaker, text, tag = 'note')
addConversationLine(lines, speaker, text, tag) ==
    Append(lines, [speaker |-> speaker, text |-> text, tag |-> tag])

\* simulateApiCall(), with the text of #prompt-input and the two values
\* Math.floor(Math.random() * 120) takes
simulateApiCall(typed, drawIn, drawOut) ==
    /\ Len(tokens) < MaxCalls
    /\ LET prompt == Trim(typed)
           inputTokens == IF Len(prompt) # 0 THEN Len(prompt)
                          ELSE drawIn + InputFloor
           outputTokens == drawOut + OutputFloor
           cost == calculateCost(inputTokens, outputTokens)
       IN  /\ tokens' = Append(tokens, [inputTokens |-> inputTokens,
                                        outputTokens |-> outputTokens,
                                        cost |-> cost])
           /\ tokenTotals' = renderTokens(tokens')
           /\ conversation' = addConversationLine(conversation, "Assistant",
                  <<"Processed call with ", ToString(inputTokens), " in / ",
                    ToString(outputTokens), " out tokens.">>, "metrics")
    /\ UNCHANGED <<queue, timers, loadingActive, queueUuids, phaseVars, wsVars>>

\* click on #simulate-call
SimulateCall ==
    \E typed \in PromptInputs, drawIn \in RandomDraws, drawOut \in RandomDraws :
        simulateApiCall(typed, drawIn, drawOut)

TokenNext == SimulateCall

\* `state' as constructed, then init(): renderTokens and renderQueue
OpsInit ==
    /\ queue = <<>>
    /\ timers = <<>>
    /\ loadingActive = renderQueue(queue)
    /\ queueUuids = 0
    /\ tokens = <<>>
    /\ tokenTotals = renderTokens(tokens)
    /\ conversation = <<
         [speaker |-> "Operator",
          text |-> <<"Kick off transcript validation with safety filters.">>,
          tag |-> "plan"],
         [speaker |-> "Assistant",
          text |-> <<"Filters ready. Awaiting toolkit selection.">>,
          tag |-> "status"] >>

vars == <<phaseVars, wsVars, opsVars>>

\* the workspace page alone
Init ==
    /\ WsInit
    /\ PhaseInit
    /\ OpsInit

Spec == Init /\ [][WsNext]_vars

\* the workspace page with its select operation called directly
SpecApi == Init /\ [][ApiNext]_vars

\* one session of the page with several saves in flight
SpecPipelined == Init /\ [][PipelinedNext]_vars

\* two sessions of the page saving to one server
SpecRace == Init /\ [][RaceNext]_vars

\* the server's save route, posted to by the page and by another client
SpecSave == Init /\ [][SaveNext]_vars

\* the Script Ops page alone
PhaseQuiet ==
    /\ WsInit
    /\ stored = [beats |-> <<>>]

PhaseSpecInit ==
    /\ PhaseInit
    /\ PhaseQuiet
    /\ OpsInit

SpecPhase == PhaseSpecInit /\ [][PhaseNext]_vars

\* the Script Ops page, used through its controls only
SpecGuarded == PhaseSpecInit /\ [][GuardedNext]_vars

\* the task queue of the Script Ops page
SpecQueue == PhaseSpecInit /\ [][QueueNext]_vars

\* the task queue, with time passing and due timers running
SpecQueueFair ==
    /\ PhaseSpecInit
    /\ [][QueueNext]_vars
    /\ WF_vars(TimePasses)
    /\ WF_vars(TimerFires)

\* the task queue with updateQueueStatus also called for an unknown id
SpecQueueApi == PhaseSpecInit /\ [][QueueApiNext]_vars

\* the token estimator of the Script Ops page
SpecTokens == PhaseSpecInit /\ [][TokenNext]_vars

----------------------------------------------------------------------------
(* Beat polish workspace: the properties checked                           *)

\* the ids of a beat's versions
VersionIds(beat) == {beat.versions[k].id : k \in 1..Len(beat.versions)}

\* the beats a session holds
BeatsOf(s) == {workspaceState[s].beats[i] : i \in 1..Len(workspaceState[s].beats)}

\* C1: from a loaded document whose selections are valid, after any polish,
\* Select and "Rollback here" clicks every beat's selectedVersionId is null
\* or the id of one of that beat's versions.
C1_SelectionReferencesVersion ==
    \A s \in Sessions : \A beat \in BeatsOf(s) :
        \/ beat.selectedVersionId = Null
        \/ beat.selectedVersionId \in VersionIds(beat)

\* Select was clicked on the card of a beat's oldest version, a newer one
\* existing
C1_Witness ==
    /\ lastEvent.op = "select"
    /\ LET beat == workspaceState[lastEvent.session].beats[lastEvent.beat]
       IN  /\ Len(beat.versions) >= 2
           /\ beat.selectedVersionId = beat.versions[1].id

\* C2: a polish click makes the beat's versions one longer, the new version
\* last and the others as they were, and selects the new version, whose id
\* no version of the session had before.
C2_PolishAppendsAndSelects ==
    [][ lastEvent'.op = "polish" =>
          LET s == lastEvent'.session
              i == lastEvent'.beat
              n == Len(workspaceState[s].beats[i].versions)
          IN  /\ Len(workspaceState'[s].beats[i].versions) = n + 1
              /\ SubSeq(workspaceState'[s].beats[i].versions, 1, n)
                    = workspaceState[s].beats[i].versions
              /\ workspaceState'[s].beats[i].selectedVersionId
                    = workspaceState'[s].beats[i].versions[n + 1].id
              /\ \A beat \in BeatsOf(s) :
                    workspaceState'[s].beats[i].versions[n + 1].id
                        \notin VersionIds(beat) ]_vars

\* a polish with a donor and an instruction, on a beat that had a version
C2_Witness ==
    /\ lastEvent.op = "polish"
    /\ LET beat == workspaceState[lastEvent.session].beats[lastEvent.beat]
       IN  /\ Len(beat.versions) = 2
           /\ beat.versions[2].sourceOption = <<"Noir">>
           /\ beat.versions[2].instruction = <<"tighten">>
           /\ beat.selectedVersionId = beat.versions[2].id

\* C3: after a click on Select or on "Rollback here" of a card, the beat's
\* selectedVersionId is the id of that card's version, which is one of the
\* beat's versions; and for every version of every beat the two handlers
\* lead to the same beat.
C3_SelectSetsExactlyThatId ==
    /\ lastEvent.op \in {"select", "rollback"} =>
          LET beat == workspaceState[lastEvent.session].beats[lastEvent.beat]
          IN  /\ beat.selectedVersionId = lastEvent.version
              /\ lastEvent.version \in VersionIds(beat)
    /\ \A s \in Sessions : \A beat \in BeatsOf(s) : \A id \in VersionIds(beat) :
          /\ SelectBeat(beat, id) = RollbackBeat(beat, id)
          /\ RollbackBeat(beat, id).selectedVersionId = id

\* "Rollback here" was clicked on a version that is not the newest
C3_Witness ==
    /\ lastEvent.op = "rollback"
    /\ LET beat == workspaceState[lastEvent.session].beats[lastEvent.beat]
       IN  /\ Len(beat.versions) >= 2
           /\ beat.selectedVersionId = lastEvent.version
           /\ beat.selectedVersionId # beat.versions[Len(beat.versions)].id

C5_VersionsAppendOnly ==
    [][ \A s \in Sessions : \A i \in 1..Len(workspaceState[s].beats) :
          LET old == workspaceState[s].beats[i].versions
          IN  /\ i <= Len(workspaceState'[s].beats)
              /\ Len(workspaceState'[s].beats[i].versions) >= Len(old)
              /\ SubSeq(workspaceState'[s].beats[i].versions, 1, Len(old)) = old
      ]_vars

\* a beat's versions are shown newest first while its list is in the order
\* of their creation
C5_Witness ==
    \E i \in 1..Len(workspaceState["s1"].beats) :
        LET beat == workspaceState["s1"].beats[i]
            n == Len(beat.versions)
        IN  /\ rendered["s1"].beat = i
            /\ n >= 2
            /\ Len(rendered["s1"].cards) = n
            /\ \A k \in 1..n : rendered["s1"].cards[k].id = beat.versions[n + 1 - k].id
            /\ \A k \in 1..(n - 1) :
                  beat.versions[k].timestamp < beat.versions[k + 1].timestamp

----------------------------------------------------------------------------
(* Phase gate: the properties checked                                      *)

\* C6: whatever deltas changePhase is called with (positive, negative, zero,
\* larger in magnitude than the number of phases), and whatever decision
\* events come in between, the phase index stays within 0..N-1.
C6_PhaseIndexInRange == phaseIndex \in 0..(NumPhases - 1)

\* a call whose delta exceeds the number of phases was clamped at both ends
C6_Witness ==
    /\ lastCall.op = "changePhase"
    /\ lastCall.delta < 0 - NumPhases
    /\ lastCall.from = NumPhases - 1
    /\ phaseIndex = 0

\* C7: after init and after every handler, 'next' is disabled exactly when
\* the predicate of the current phase is false over the current decisions.
C7_NextDisabledIffGateFalse ==
    /\ InRange(phaseIndex)
    /\ nextDisabled <=>
         ~( \/ phaseIndex = 0 /\ decisions.filters # {}
            \/ phaseIndex = 1 /\ decisions.toolkit # ""
            \/ phaseIndex = 2 /\ decisions.variant # ""
            \/ phaseIndex = 3 /\ decisions.rollback )

\* a phase change arrived at a phase whose predicate already held, and the
\* button came up enabled
C7_Witness ==
    /\ lastCall.op = "changePhase"
    /\ lastCall.from = 1
    /\ phaseIndex = 2
    /\ decisions.variant # ""
    /\ ~nextDisabled

\* the predicate the specification gives for a phase id
C8_Expected(id, d) ==
    IF id = "filters" THEN d.filters # {}
    ELSE IF id = "toolkit" THEN d.toolkit # ""
    ELSE IF id = "variants" THEN d.variant # ""
    ELSE IF id = "rollback" THEN d.rollback = TRUE
    ELSE TRUE

\* C8: the advance predicate is: filters non-empty, toolkit non-empty,
\* approved variant non-empty, rollback true, and true for any other id; and
\* when the last filter is toggled off in the filters phase, 'next' is
\* disabled again.
C8_AdvancePredicate ==
    /\ \A i \in 1..NumPhases :
         Allowed(phases[i].id, decisions) = C8_Expected(phases[i].id, decisions)
    /\ \A id \in {"summary", "", "variant"} : Allowed(id, decisions) = TRUE
    /\ (phaseIndex = 0 /\ decisions.filters = {}) => nextDisabled

\* the last filter was toggled off in the filters phase: the predicate held
\* before the event and 'next' is disabled after it
C8_Witness ==
    /\ lastCall.op = "handleFilterChange"
    /\ lastCall.from = 0
    /\ lastCall.gate
    /\ decisions.filters = {}
    /\ nextDisabled

\* C9: the index after changePhase(delta) is the clamp of index + delta and
\* nothing else: -1 from i > 0 gives i - 1 and +1 from i < N-1 gives i + 1,
\* also when the predicate of the phase left is false.
C9_MoveIgnoresDecisions ==
    lastCall.op = "changePhase" =>
        /\ phaseIndex =
             IF lastCall.from + lastCall.delta < 0 THEN 0
             ELSE IF lastCall.from + lastCall.delta > NumPhases - 1
                  THEN NumPhases - 1
                  ELSE lastCall.from + lastCall.delta
        /\ (lastCall.delta = -1 /\ lastCall.from > 0)
              => phaseIndex = lastCall.from - 1
        /\ (lastCall.delta = 1 /\ lastCall.from < NumPhases - 1)
              => phaseIndex = lastCall.from + 1

\* changePhase(+1) moved forward from a phase whose predicate was false
C9_Witness ==
    /\ lastCall.op = "changePhase"
    /\ lastCall.delta = 1
    /\ ~lastCall.gate
    /\ phaseIndex = lastCall.from + 1

\* C10: a phase change leaves every decision as it was, and each decision
\* field changes only in its own handler.
C10_NavigationKeepsDecisions ==
    [][ /\ lastCall'.op = "changePhase" => decisions' = decisions
        /\ decisions'.filters # decisions.filters
              => lastCall'.op = "handleFilterChange"
        /\ decisions'.toolkit # decisions.toolkit
              => lastCall'.op = "handleToolkitChange"
        /\ decisions'.variant # decisions.variant
              => lastCall'.op = "approveVariant"
        /\ decisions'.rollback # decisions.rollback
              => lastCall'.op = "toggleRollback" ]_phaseVars

\* a backward move from the last phase with every decision entered
C10_Witness ==
    /\ lastCall.op = "changePhase"
    /\ lastCall.delta < 0
    /\ lastCall.from = NumPhases - 1
    /\ phaseIndex < lastCall.from
    /\ decisions.filters # {}
    /\ decisions.toolkit # ""
    /\ decisions.variant # ""
    /\ decisions.rollback


----------------------------------------------------------------------------
(* Task queue: the properties checked                                      *)

\* the ids of the tasks of a queue
QueueIds(q) == {q[i].id : i \in 1..Len(q)}

\* the tasks of the queue that have the given id
TasksWithId(id) == {i \in 1..Len(queue) : queue[i].id = id}

\* C11: the status of every task of the queue only moves from waiting to
\* running and from running to done, whatever the order of enqueues and
\* timer callbacks; and when the 'done' callback of a task runs, its
\* 'running' callback has taken effect: the task is running.
C11_StatusOnlyForward ==
    [][ /\ \A i \in 1..Len(queue) :
              queue'[i].status # queue[i].status =>
                  \/ queue[i].status = "waiting" /\ queue'[i].status = "running"
                  \/ queue[i].status = "running" /\ queue'[i].status = "done"
        /\ (timers # <<>> /\ timers' = Tail(timers)
                /\ Head(timers).status = "done") =>
              \A i \in TasksWithId(Head(timers).id) :
                  queue[i].status = "running"
      ]_vars

\* the second task was started while the first was done already
C11_Witness ==
    /\ Len(queue) >= 2
    /\ queue[1].status = "done"
    /\ queue[2].status = "waiting"

\* C12: when time passes and due timers run, every task that is in the
\* queue is done from some moment on and for ever, however many tasks are
\* started before and after it.
C12_EveryTaskEndsDone ==
    \A i \in 1..MaxTasks :
        (Len(queue) >= i) ~> [](Len(queue) >= i /\ queue[i].status = "done")

\* all the tasks of a run are done and no timer is left
C12_Witness ==
    /\ Len(queue) >= 2
    /\ \A i \in 1..Len(queue) : queue[i].status = "done"
    /\ timers = <<>>

\* C13: after init and after every enqueue and status change, #global-loading
\* is active exactly when some task of the queue is waiting or running.
C13_LoadingIffTaskInFlight ==
    loadingActive <=>
        (\E i \in 1..Len(queue) : queue[i].status \in {"waiting", "running"})

\* the first task is done and the indicator is still on for the second
C13_Witness ==
    /\ Len(queue) >= 2
    /\ queue[1].status = "done"
    /\ queue[2].status = "running"
    /\ loadingActive

\* C14: a step that lengthens the queue appends exactly one task, waiting and
\* with an id no task of the queue has; the queue never gets shorter and the
\* ids of its tasks are pairwise distinct.
C14_EnqueueAppendsFreshTask ==
    [][ /\ Len(queue') >= Len(queue)
        /\ Cardinality(QueueIds(queue')) = Len(queue')
        /\ Len(queue') > Len(queue) =>
              /\ Len(queue') = Len(queue) + 1
              /\ SubSeq(queue', 1, Len(queue)) = queue
              /\ queue'[Len(queue')].status = "waiting"
              /\ queue'[Len(queue')].id \notin QueueIds(queue)
      ]_vars

\* a second task was appended behind a running one
C14_Witness ==
    /\ Len(queue) >= 2
    /\ queue[1].status = "running"
    /\ queue[2].status = "waiting"
    /\ queue[1].id # queue[2].id

----------------------------------------------------------------------------
(* Token estimator: the properties checked                                 *)

\* the sum of the input tokens of the entries
RECURSIVE SumInput(_)
SumInput(entries) ==
    IF entries = <<>> THEN 0
    ELSE SumInput(SubSeq(entries, 1, Len(entries) - 1))
            + entries[Len(entries)].inputTokens

\* the sum of the output tokens of the entries
RECURSIVE SumOutput(_)
SumOutput(entries) ==
    IF entries = <<>> THEN 0
    ELSE SumOutput(SubSeq(entries, 1, Len(entries) - 1))
            + entries[Len(entries)].outputTokens

\* the sum, over the entries, of the linear cost of their token counts
RECURSIVE SumLinearCost(_)
SumLinearCost(entries) ==
    IF entries = <<>> THEN 0
    ELSE SumLinearCost(SubSeq(entries, 1, Len(entries) - 1))
            + entries[Len(entries)].inputTokens * InputPrice
            + entries[Len(entries)].outputTokens * OutputPrice

\* C15: whatever calls were recorded, the totals renderTokens computes are
\* the sums over state.tokens of the input tokens, of the output tokens and
\* of the cost totals, where each entry's cost is linear in its two counts
\* at the two prices and its total is its input cost plus its output cost.
C15_TotalsAreSums ==
    /\ tokenTotals.totalInput = SumInput(tokens)
    /\ tokenTotals.totalOutput = SumOutput(tokens)
    /\ tokenTotals.totalCost = SumLinearCost(tokens)
    /\ \A k \in 1..Len(tokens) :
          /\ tokens[k].inputTokens >= 0
          /\ tokens[k].outputTokens >= 0
          /\ tokens[k].cost.inputCost = tokens[k].inputTokens * InputPrice
          /\ tokens[k].cost.outputCost = tokens[k].outputTokens * OutputPrice
          /\ tokens[k].cost.total =
                tokens[k].cost.inputCost + tokens[k].cost.outputCost

\* two calls recorded, one counted from the prompt's length and one drawn
C15_Witness ==
    /\ Len(tokens) >= 2
    /\ tokens[1].inputTokens < InputFloor
    /\ tokens[2].inputTokens >= InputFloor
    /\ tokenTotals.totalCost > tokens[1].cost.total

----------------------------------------------------------------------------
(* Prompts: the properties checked                                         *)

\* part occurs in text, as consecutive fragments
Contains(text, part) ==
    \E k \in 0..(Len(text) - Len(part)) :
        SubSeq(text, k + 1, k + Len(part)) = part

\* the text of the version the beat's selectedVersionId names, the baseline
\* when no version has that id
CurrentDraft(beat) ==
    IF beat.selectedVersionId \in VersionIds(beat)
    THEN beat.versions[CHOOSE k \in 1..Len(beat.versions) :
                           beat.versions[k].id = beat.selectedVersionId].text
    ELSE beat.baseline

\* C16: the prompt of the version a polish click creates is what
\* updatePromptPreview shows for the beat as it was just before the click,
\* for the donor and the instruction the version records; and polishing
\* leaves the other versions and the texts of the beat as they were.
C16_StampedPromptIsPreview ==
    [][ lastEvent'.op = "polish" =>
          LET s == lastEvent'.session
              i == lastEvent'.beat
              before == workspaceState[s].beats[i]
              after == workspaceState'[s].beats[i]
              version == after.versions[Len(after.versions)]
          IN  /\ \E radio \in DonorRadios(before), typed \in InstructionInputs :
                    /\ version.sourceOption =
                          IF getSelectedDonor(before, radio) # NoDonor
                          THEN getSelectedDonor(before, radio).name
                          ELSE <<"baseline">>
                    /\ version.instruction =
                          OrElse(Trim(typed), <<"None provided">>)
                    /\ version.prompt = updatePromptPreview(before, radio, typed)
              /\ after.baseline = before.baseline
              /\ after.rejectedOptions = before.rejectedOptions
      ]_vars

\* a polish of a beat whose selected version was not the baseline: the
\* prompt stamped carries that version's text as the current draft
C16_Witness ==
    /\ lastEvent.op = "polish"
    /\ LET beat == workspaceState[lastEvent.session].beats[lastEvent.beat]
       IN  /\ Len(beat.versions) = 2
           /\ Contains(beat.versions[2].prompt,
                       <<"Current selected draft: ">> \o beat.versions[1].text)
           /\ beat.versions[2].instruction = <<"None provided">>

\* C17: for every beat a session holds, every donor radio and every
\* instruction, the prompt has the selected version's text (the baseline
\* when no version is selected) as its current draft, followed by the
\* baseline; without a donor it has 'Use baseline tone only.' and with an
\* empty instruction 'None provided'.
C17_PromptParts ==
    \A s \in Sessions : \A beat \in BeatsOf(s) :
        \A radio \in DonorRadios(beat), typed \in InstructionInputs :
            LET donorOption == getSelectedDonor(beat, radio)
                instruction == Trim(typed)
                prompt == buildPrompt(beat, donorOption, instruction)
            IN  /\ Contains(prompt,
                      <<"\n", "Current selected draft: ">> \o CurrentDraft(beat)
                          \o <<"\n", "Baseline reference: ">> \o beat.baseline
                          \o <<"\n", "Style donor: ">>)
                /\ donorOption = NoDonor =>
                      Contains(prompt,
                          <<"Style donor: ", "Use baseline tone only.", "\n">>)
                /\ instruction = <<>> =>
                      Contains(prompt,
                          <<"Operator instruction: ", "None provided", "\n">>)

\* a version is selected whose text is not the baseline, and a version made
\* from it carries both texts in its prompt
C17_Witness ==
    \E beat \in BeatsOf("s1") :
        /\ Len(beat.versions) = 2
        /\ beat.selectedVersionId = beat.versions[2].id
        /\ CurrentDraft(beat) = beat.versions[2].text
        /\ Contains(beat.versions[2].prompt,
                    <<"Current selected draft: ">> \o beat.versions[1].text
                        \o <<"\n", "Baseline reference: ">> \o beat.baseline)

----------------------------------------------------------------------------
(* Saving: the properties checked                                          *)

\* the server handles the k-th request in this step
Handled(k) ==
    /\ Len(saves') = Len(saves)
    /\ saves[k].status = "sent"
    /\ saves'[k].status # "sent"

\* C18: the server answers 400 and leaves workspace_state.json as it is when
\* the beats of the request are missing or no array; it answers 200 and
\* makes the file {beats} when they are an array, whatever the file held
\* and whoever sent the request.
C18_SaveValidatesThenReplaces ==
    [][ \A k \in 1..Len(saves) :
          Handled(k) =>
              IF saves[k].body.kind = "array"
              THEN /\ saves'[k].status = "200"
                   /\ stored' = [beats |-> saves[k].body.beats]
              ELSE /\ saves'[k].status = "400"
                   /\ stored' = stored
      ]_vars

\* a request without beats was refused while the file held two beats
C18_Witness ==
    \E k \in 1..Len(saves) :
        /\ saves[k].status = "400"
        /\ saves[k].body.kind = "undefined"
        /\ Len(stored.beats) = 2

\* the ids of the versions of a list of beats
DocIds(beats) == UNION {VersionIds(beats[i]) : i \in 1..Len(beats)}

\* C19: whatever the file holds and whichever session wrote it, the server
\* answers a session's save with 200 and makes the file the beats of that
\* save, so that after two sessions that loaded the same document each
\* saved a version of its own beat, the file is the beat list of the save
\* handled last: a version another session holds and this save lacks is
\* not in the file afterwards.
C19_LastSaveWins ==
    [][ \A k \in 1..Len(saves) :
          Handled(k) =>
              /\ saves'[k].status = "200"
              /\ stored'.beats = saves[k].body.beats
              /\ \A t \in Sessions \ {saves[k].from} :
                    \A id \in DocIds(workspaceState[t].beats)
                                \ DocIds(saves[k].body.beats) :
                        id \notin DocIds(stored'.beats)
      ]_vars

\* both sessions polished, s1 its first beat and s2 its second, neither
\* holding the other's version; both saves were handled and answered, and
\* the file has one of the two versions and lacks the other
C19_Witness ==
    /\ saves = <<>>
    /\ Len(workspaceState["s1"].beats) = 2
    /\ Len(workspaceState["s2"].beats) = 2
    /\ \E x \in VersionIds(workspaceState["s1"].beats[1]) :
       \E y \in VersionIds(workspaceState["s2"].beats[2]) :
          /\ x \notin DocIds(workspaceState["s2"].beats)
          /\ y \notin DocIds(workspaceState["s1"].beats)
          /\ (x \in DocIds(stored.beats)) # (y \in DocIds(stored.beats))

----------------------------------------------------------------------------
(* Phase gate used through its buttons: the properties checked             *)

\* C20: when changePhase(1) runs from the next button only, which takes no
\* click while disabled, every step from a phase to the one after it is
\* taken with the predicate of the phase left true: the step from the first
\* phase with a filter checked, the step from the second with a toolkit set.
C20_ForwardOnlyWhenAllowed ==
    [][ phaseIndex' = phaseIndex + 1 =>
          /\ Allowed(phases[phaseIndex + 1].id, decisions)
          /\ phaseIndex = 0 => decisions.filters # {}
          /\ phaseIndex = 1 => decisions.toolkit # ""
      ]_vars

\* the second phase was left by the next button, with a toolkit set
C20_Witness ==
    /\ phaseIndex = 2
    /\ lastCall.op = "changePhase"
    /\ lastCall.delta = 1
    /\ lastCall.from = 1
    /\ decisions.toolkit # ""

----------------------------------------------------------------------------
(* The page's handlers and its saves: the properties checked               *)

\* C21: in whatever step a beat of a session gets a version more, the same
\* step selects that version and leaves the beat's other fields and its
\* earlier versions as they were, and the request the step posts carries the
\* beat with both changes: no event finds the version pushed and the earlier
\* selection still in place.
C21_PushAndSelectInOneStep ==
    [][ \A s \in Sessions :
          Len(workspaceState'[s].beats) = Len(workspaceState[s].beats) =>
            \A i \in 1..Len(workspaceState[s].beats) :
              LET before == workspaceState[s].beats[i]
                  after == workspaceState'[s].beats[i]
                  n == Len(before.versions)
              IN  Len(after.versions) # n =>
                    /\ Len(after.versions) = n + 1
                    /\ after.selectedVersionId = after.versions[n + 1].id
                    /\ after.selectedVersionId # before.selectedVersionId
                    /\ after = [before EXCEPT
                                  !.versions = Append(@, after.versions[n + 1]),
                                  !.selectedVersionId = after.versions[n + 1].id]
                    /\ Len(saves') = Len(saves) + 1
                    /\ saves'[Len(saves')].body.beats[i] = after
      ]_vars

\* a polish of a beat whose earlier version was selected: its save, not yet
\* handled, carries the new version as the selected one
C21_Witness ==
    /\ lastEvent.op = "polish"
    /\ Len(saves) = 1
    /\ saves[1].status = "sent"
    /\ LET beat == saves[1].body.beats[lastEvent.beat]
       IN  /\ Len(beat.versions) = 2
           /\ beat.selectedVersionId = beat.versions[2].id
           /\ Contains(beat.versions[2].prompt,
                       <<"Current selected draft: ">> \o beat.versions[1].text)

\* C22: after a polish, Select or "Rollback here" click on a beat the page
\* is re-rendered from the session's state whatever becomes of the save: in
\* every state a loaded session shows the cards of its current state, also
\* while its save is pending and after it failed, and the state keeps the
\* click's change.
C22_RenderedWithoutWaiting ==
    \A s \in Sessions :
        ~loading[s] =>
            /\ rendered[s] = renderActiveBeat(workspaceState[s], activeBeatId[s])
            /\ lastEvent.session = s /\ lastEvent.version # Null =>
                  workspaceState[s].beats[lastEvent.beat].selectedVersionId
                      = lastEvent.version

----------------------------------------------------------------------------
(* Task queue, its operations one by one: the properties checked           *)

----------------------------------------------------------------------------
(* Phase gate, the phases behind the current one                           *)

\* C24: with changePhase run from the two buttons only, in every state the
\* predicate of every phase before the current one holds of the decisions
\* as they are now.
C24_EarlierPredicatesHold ==
    \A j \in 0..(phaseIndex - 1) : Allowed(phases[j + 1].id, decisions)

\* C24, amended: with changePhase run from the two buttons only, in every
\* state the predicate of every phase before the current one, the filters
\* phase apart, holds of the decisions as they are now: a toolkit once set
\* and a variant once approved cannot be taken back, while the filters can
\* all be unchecked at any phase.
C24_RetainedPredicatesHold ==
    \A j \in 0..(phaseIndex - 1) :
        phases[j + 1].id # "filters" => Allowed(phases[j + 1].id, decisions)

\* the last phase, reached by the next button, with every filter unchecked
C24_Witness ==
    /\ phaseIndex = NumPhases - 1
    /\ decisions.filters = {}
    /\ decisions.toolkit # ""
    /\ decisions.variant # ""

----------------------------------------------------------------------------
(* Task queue, the order of the tasks                                      *)

\* how far a status is along waiting, running, done
StatusRank(status) ==
    CASE status = "waiting" -> 0
      [] status = "running" -> 1
      [] status = "done"    -> 2

\* C25: in every state a task started earlier is at least as far along as
\* any task started later: it is running or done when the later one is
\* running, and done when the later one is done.
C25_EnqueueOrderKept ==
    \A i \in 1..Len(queue) : \A j \in (i + 1)..Len(queue) :
        StatusRank(queue[i].status) >= StatusRank(queue[j].status)

\* two tasks started within the shorter delay of each other: both running,
\* the earlier one's 'done' timer ahead of the later one's
C25_Witness ==
    /\ Len(queue) >= 2
    /\ queue[1].status = "running"
    /\ queue[2].status = "running"
    /\ Len(timers) >= 2
    /\ timers[1].id = queue[1].id
    /\ timers[1].wait < timers[2].wait

----------------------------------------------------------------------------
(* One session, several saves in flight                                    *)

\* C26: the request a click posts carries the session's beats as the click
\* left them; and when every request posted has been handled by the server,
\* the file's beats are the session's beats, also after several requests
\* were in flight together.
C26_StoredIsLocalOnceApplied ==
    /\ \A k \in 1..Len(saves) :
          (k = Len(saves) /\ saves[k].status = "sent") =>
              saves[k].body.beats = workspaceState[saves[k].from].beats
    /\ (~loading["s1"] /\ \A k \in 1..Len(saves) : saves[k].status # "sent") =>
          stored.beats = workspaceState["s1"].beats


====
